---- MODULE Spec2Model ----
(***************************************************************************)
(* Face-identity pipeline of backend/utils/face_recognition_utils.py:      *)
(* generate_face_encoding (Encoder), compare_faces and                     *)
(* recognize_face_from_database (Matcher).                                 *)
(*                                                                         *)
(* Conventions.  Python None is the empty tuple and a present value v is   *)
(* <<v>>.  Distances and thresholds are fixed-point numbers in hundredths: *)
(* the tolerance 0.7 is 70 and the classifier distance 65.0 is 6500.       *)
(* A JSON value is a tree: a number, a non-list non-number value, a list   *)
(* of n equal items ("rep", used for pixel rows and grids) or an explicit  *)
(* list of items.  A pixel value stands for the content of the image, so   *)
(* two grids are bit-identical iff they are equal trees.                   *)
(***************************************************************************)
EXTENDS Integers, Sequences, FiniteSets, TLC

VARIABLES
    available,          \* FACE_RECOGNITION_AVAILABLE, set once at import
    pc,                 \* position of the request being served
    fn,                 \* entry point of the current call
    photo,              \* photo_base64 / unknown_photo_base64
    known,              \* known_faces_dict as its (user_id, text) items in order;
                        \* known_encoding_json in a compare_faces call
    tolerance,          \* tolerance argument, in hundredths
    ops,                \* library operations performed by the current call
                        \* ("fault": the classifier raised)
    unknown_face_img,   \* recognize: the query sample once encoded
    idx,                \* recognize: position of the for loop in the mapping
    train_imgs,         \* recognize: training images
    train_labels,       \* recognize: training labels
    user_id_to_label,   \* recognize: label map, label l is at position l+1
    result,             \* the dictionary returned by the call
    seen,               \* an earlier generate_face_encoding call, remembered by
                        \* a caller that repeats it
    store,              \* the identity store: (user_id, face_encoding) rows
    calls,              \* concurrent requests: the arguments, position and
                        \* result of the call of each request
    cells,              \* concurrent requests: the training lists and label
                        \* map created by a call
    users,              \* routes/auth.py: the users table, row i is the user of
                        \* id i, None once deleted
    inflight,           \* routes/auth.py: the approve/reject requests between
                        \* their read and their commit
    response,           \* routes/auth.py: the last response sent
    history             \* routes/auth.py: which users ever were APPROVED, logged
                        \* in, and which status requests returned 200

\* what lives outside the call of a single request
\* the state of routes/auth.py
auth == <<users, inflight, response, history>>

aux == <<seen, store, calls, cells, auth>>

vars == <<available, pc, fn, photo, known, tolerance, ops, unknown_face_img,
          idx, train_imgs, train_labels, user_id_to_label, result, seen, store,
          calls, cells, users, inflight, response, history>>

-----------------------------------------------------------------------------
(* Bounds of the model *)

MaxUsers == 2
MaxFaces == 3
MaxRows == 2

(* Program constants *)

FaceSize == 100
MinFaceSize == 30
ToleranceScale == 100
DefaultToleranceRecognize == 70
DefaultToleranceSame == DefaultToleranceRecognize
DefaultToleranceCompare == 60

-----------------------------------------------------------------------------
(* Python values *)

None == <<>>
Some(v) == <<v>>

JNum(p) == [t |-> "num", n |-> p, e |-> <<>>]
JNull == [t |-> "null", n |-> 0, e |-> <<>>]
JRep(k, x) == [t |-> "rep", n |-> k, e |-> <<x>>]
JList(s) == [t |-> "list", n |-> 0, e |-> s]

\* isinstance(j, list)
IsList(j) == j.t \in {"rep", "list"}

\* len(j) of a list
PyLen(j) == IF j.t = "rep" THEN j.n ELSE Len(j.e)

\* j[i-1] of a non-empty list (positions count from 1 here)
PyItem(j, i) == IF j.t = "rep" THEN j.e[1] ELSE j.e[i]

\* the positions of the distinct items of a list
ItemPositions(j) == IF j.t = "rep" THEN (IF j.n > 0 THEN {1} ELSE {}) ELSE 1..Len(j.e)

\* a stored text: '' or None, text that is no JSON, or the JSON text of a tree
EmptyText == [k |-> "empty", v |-> <<>>]
GarbageText == [k |-> "garbage", v |-> <<>>]

\* json.dumps(tree)
JsonDumps(tree) == [k |-> "json", v |-> <<tree>>]

\* json.loads(text): the tree, or None when it raises
JsonLoads(text) == IF text.k = "json" THEN Some(text.v[1]) ELSE None

-----------------------------------------------------------------------------
(* numpy arrays: a shape and the nested data *)

ShapeError == <<-1>>

\* the shape np.array(j, dtype=np.uint8) has, or ShapeError when it raises
RECURSIVE NpShape(_)
NpShape(j) ==
    IF j.t = "num" THEN <<>>
    ELSE IF j.t = "null" THEN ShapeError
    ELSE IF PyLen(j) = 0 THEN <<0>>
    ELSE LET subs == {NpShape(PyItem(j, i)) : i \in ItemPositions(j)}
         IN  IF ShapeError \in subs \/ Cardinality(subs) > 1
             THEN ShapeError
             ELSE <<PyLen(j)>> \o (CHOOSE s \in subs : TRUE)

\* np.array(j, dtype=np.uint8); ok = FALSE when it raises
NpArray(j) == [ok |-> NpShape(j) # ShapeError, shape |-> NpShape(j), data |-> j]

\* array.tolist()
ToList(a) == a.data

\* the content of an image: its pixel value
RECURSIVE PixelOf(_)
PixelOf(j) ==
    IF j.t = "num" THEN j.n
    ELSE IF IsList(j) /\ PyLen(j) > 0 THEN PixelOf(PyItem(j, 1))
    ELSE 0

\* a rows x cols grid of pixel p
Grid(rows, cols, p) == JRep(rows, JRep(cols, JNum(p)))

-----------------------------------------------------------------------------
(* Photographs.  The base64 text is the sequence of its comma-separated    *)
(* pieces; a piece is a data-URL header, text that decodes to no image, or *)
(* the base64 of an image.  An image carries what the cascade detector     *)
(* finds in it: a sequence of boxes <<x, y, w, h>>.                        *)

HeaderPiece == [kind |-> "hdr", dim |-> <<0, 0>>, faces |-> <<>>, pat |-> 0]
JunkPiece == [kind |-> "junk", dim |-> <<0, 0>>, faces |-> <<>>, pat |-> 0]
ImagePiece(h, w, boxes, p) == [kind |-> "img", dim |-> <<h, w>>, faces |-> boxes, pat |-> p]

\* a variant that does not strip the data-URL header
Base64ToImageNoSplit(base64_string) ==
    IF base64_string[1].kind = "img" THEN Some(base64_string[1]) ELSE None

\* base64_to_image: the image, or None
Base64ToImage(base64_string) ==
    LET piece == IF Len(base64_string) > 1 THEN base64_string[2] ELSE base64_string[1]
    IN  IF piece.kind = "img" THEN Some(piece) ELSE None

\* cv2.cvtColor(image_to_numpy(image), COLOR_RGB2GRAY)
ToGray(image) == NpArray(Grid(image.dim[1], image.dim[2], image.pat))

\* face_cascade.detectMultiScale(gray, ...)
DetectMultiScale(image) == image.faces

\* gray[y:y+h, x:x+w]
Crop(gray, box) == NpArray(Grid(box[4], box[3], PixelOf(gray.data)))

\* a variant that returns the crop as it is
ResizeSkipped(img, width, height) == img

\* cv2.resize(img, (width, height))
Resize(img, width, height) == NpArray(Grid(height, width, PixelOf(img.data)))

\* a variant whose failures count the face that could not be encoded
EncodeFailureCountsOne(msg, count) ==
    [success |-> FALSE, encoding |-> None, message |-> msg, face_count |-> count + 1]

\* the failure dictionaries of generate_face_encoding
EncodeFailure(msg, count) ==
    [success |-> FALSE, encoding |-> None, message |-> msg, face_count |-> count]

\* a variant in which a call leaves the feature switched off
FlagClearedByCall(flag) == FALSE

\* lines 15-22: the flag is assigned at import only, so a call leaves it as
\* it found it
FlagAfterCall(flag) == flag

\* a variant without the availability check
FeatureCheckSkipped == FALSE

\* if not FACE_RECOGNITION_AVAILABLE
FeatureUnavailable == ~available

\* a variant whose zero-face check never fires
NoFaceCheckNegative(face_count) == face_count < 0

\* if face_count == 0
NoFaceDetected(face_count) == face_count = 0

\* a variant that reports face_count 0 like the other failures
MultipleFacesZeroCount(face_count) == EncodeFailure("Multiple faces detected", 0)

\* the result returned when face_count > 1
MultipleFacesResult(face_count) == EncodeFailure("Multiple faces detected", face_count)

\* generate_face_encoding(photo_base64): the returned dictionary (res) and the
\* library operations performed on the way (done)
GenerateFaceEncoding(photo_base64) ==
    IF FeatureUnavailable
    THEN [res |-> EncodeFailure("OpenCV (cv2) library not available", 0), done |-> {}]
    ELSE IF photo_base64 = <<>>
    THEN [res |-> EncodeFailure("No photo provided", 0), done |-> {}]
    ELSE LET image == Base64ToImage(photo_base64)
         IN  IF image = None
             THEN [res |-> EncodeFailure("Failed to decode image", 0),
                   done |-> {"decode"}]
             ELSE LET gray == ToGray(image[1])
                      faces == DetectMultiScale(image[1])
                      face_count == Len(faces)
                  IN  IF NoFaceDetected(face_count)
                      THEN [res |-> EncodeFailure("No face detected in the photo", 0),
                            done |-> {"decode", "detect"}]
                      ELSE IF face_count > 1
                      THEN [res |-> MultipleFacesResult(face_count),
                            done |-> {"decode", "detect"}]
                      ELSE IF face_count < 1
                      THEN \* faces[0] raises: the except clause
                           [res |-> EncodeFailure("Error processing face", 0),
                            done |-> {"decode", "detect"}]
                      ELSE LET face_img == Resize(Crop(gray, faces[1]), FaceSize, FaceSize)
                           IN  [res |-> [success |-> TRUE,
                                         encoding |-> Some(JsonDumps(ToList(face_img))),
                                         message |-> "Face encoding generated successfully",
                                         face_count |-> 1],
                                done |-> {"decode", "detect", "resize"}]

-----------------------------------------------------------------------------
(* The LBPH classifier (cv2.face): nearest neighbour over the training     *)
(* images by histogram distance, lower is better, 0 for identical images.  *)

LBPHDistance(p, q) ==
    IF p = q THEN 0
    ELSE 5000 + 1000 * (IF p > q THEN p - q ELSE q - p)

\* positions of the training images nearest to the query
Nearest(imgs, query) ==
    {i \in 1..Len(imgs) :
        \A j \in 1..Len(imgs) :
            LBPHDistance(PixelOf(imgs[i].data), PixelOf(query.data))
                <= LBPHDistance(PixelOf(imgs[j].data), PixelOf(query.data))}

\* recognizer.train(imgs, labels); recognizer.predict(query): <<label, confidence>>
Predict(imgs, labels, query) ==
    LET best == CHOOSE i \in Nearest(imgs, query) : \A j \in Nearest(imgs, query) : i <= j
    IN  <<labels[best], LBPHDistance(PixelOf(imgs[best].data), PixelOf(query.data))>>

\* a variant that reads the score as a similarity, higher is better
IsMatchSimilarity(confidence, tol) == confidence > tol * ToleranceScale

\* a variant with a non-strict comparison
IsMatchNonStrict(confidence, tol) == confidence <= tol * ToleranceScale

\* confidence < (tolerance * 100)
IsMatch(confidence, tol) == confidence < tol * ToleranceScale

-----------------------------------------------------------------------------
(* recognize_face_from_database: the body of the for loop *)

\* a variant without the shape check
AnyShape(a) == a.ok

\* known_face_img.shape == (100, 100), of an array that was built
ValidShape(a) == a.ok /\ a.shape = <<FaceSize, FaceSize>>

\* the items of a list, in order
PyItems(j) == IF j.t = "rep" THEN [i \in 1..j.n |-> j.e[1]] ELSE j.e

\* a variant that knows the legacy shape only
NeverMultiple(encoding_data) == FALSE

\* isinstance(encoding_data[0][0], list): several encodings rather than one
IsMultiple(encoding_data) == IsList(PyItem(PyItem(encoding_data, 1), 1))

\* a variant that numbers the labels by the training images collected so far
LabelFromImages(st) == Len(st.imgs)

\* label = len(user_id_to_label)
NextLabel(st) == Len(st.map)

\* one iteration of the loop over known_faces_dict.items(); st holds train_imgs,
\* train_labels and user_id_to_label
ParseUser(st, user_id, encoding_json) ==
    IF encoding_json.k = "empty" THEN st
    ELSE LET loaded == JsonLoads(encoding_json)
         IN
         IF loaded = None THEN st
         ELSE LET encoding_data == loaded[1]
                  label == NextLabel(st)
                  labelled == [st EXCEPT !.map = Append(st.map, user_id)]
              IN
              IF ~(IsList(encoding_data) /\ PyLen(encoding_data) > 0) THEN st
              ELSE IF ~(IsList(PyItem(encoding_data, 1))
                        /\ PyLen(PyItem(encoding_data, 1)) > 0) THEN st
              ELSE IF IsMultiple(encoding_data)
              THEN LET added == SelectSeq([i \in 1..PyLen(encoding_data) |->
                                              NpArray(PyItems(encoding_data)[i])],
                                          ValidShape)
                   IN  [labelled EXCEPT
                          !.imgs = st.imgs \o added,
                          !.labels = st.labels \o [i \in 1..Len(added) |-> label]]
              ELSE LET known_face_img == NpArray(encoding_data)
                   IN  IF ValidShape(known_face_img)
                       THEN [labelled EXCEPT
                               !.imgs = Append(st.imgs, known_face_img),
                               !.labels = Append(st.labels, label)]
                       ELSE labelled

\* a variant without the empty-mapping check
EmptyCheckSkipped(known_faces_dict) == FALSE

\* if not known_faces_dict
NoKnownFaces(known_faces_dict) == Len(known_faces_dict) = 0

\* a variant without the empty-training-set check
TrainCheckSkipped(imgs) == FALSE

\* if not train_imgs
NoTrainingData(imgs) == Len(imgs) = 0

RecognizeFailure(msg) ==
    [success |-> FALSE, recognized |-> FALSE, user_id |-> None, distance |-> None,
     message |-> msg]

\* a variant that looks the label up one position too low
LabelOwnerOffByOne(map, label) == IF label \in DOMAIN map THEN Some(map[label]) ELSE None

\* user_id_to_label.get(label)
LabelOwner(map, label) == IF label + 1 \in DOMAIN map THEN Some(map[label + 1]) ELSE None

\* a variant that names the owner of the nearest sample also without a match
RecognizeResultKeepsOwner(match, owner, confidence) ==
    [success |-> TRUE,
     recognized |-> match,
     user_id |-> owner,
     distance |-> Some(confidence),
     message |-> IF match THEN "Face recognized" ELSE "Face not recognized"]

\* a variant that reports success only when a match was found
RecognizeResultSuccessIsMatch(match, owner, confidence) ==
    [success |-> match,
     recognized |-> match,
     user_id |-> IF match THEN owner ELSE None,
     distance |-> Some(confidence),
     message |-> IF match THEN "Face recognized" ELSE "Face not recognized"]

\* lines 361-375: the dictionary returned after a prediction
RecognizeResult(match, owner, confidence) ==
    [success |-> TRUE,
     recognized |-> match,
     user_id |-> IF match THEN owner ELSE None,
     distance |-> Some(confidence),
     message |-> IF match THEN "Face recognized" ELSE "Face not recognized"]

\* a variant without the except clause: the exception reaches the caller
RecognizeExceptMissing == [raised |-> "Exception"]

\* lines 376-384: the except clause of recognize_face_from_database
RecognizeExcept == RecognizeFailure("Error recognizing face")

\* a variant that replaces the encoder's message by a generic one
GenericMessage(res) == "Error recognizing face"

\* line 265: 'message': result['message']
EncoderMessage(res) == res.message

-----------------------------------------------------------------------------
(* compare_faces *)

\* a variant whose failures carry a match and a distance
CompareFailureAsMatch(msg) ==
    [success |-> FALSE, match |-> TRUE, distance |-> Some(0), message |-> msg]

\* the failure dictionaries of lines 173-179, 186-192 and 207-213
CompareFailure(msg) ==
    [success |-> FALSE, match |-> FALSE, distance |-> None, message |-> msg]

\* compare_faces(known_encoding_json, unknown_photo_base64, tolerance); fault
\* says whether the classifier raises in train or predict
CompareFaces(known_encoding_json, unknown_photo_base64, tol, fault) ==
    IF FeatureUnavailable
    THEN [res |-> CompareFailure("Face recognition library not available"), done |-> {}]
    ELSE LET loaded == JsonLoads(known_encoding_json)
         IN
         IF loaded = None \/ ~NpArray(loaded[1]).ok
         THEN [res |-> CompareFailure("Error comparing faces"), done |-> {"parse"}]
         ELSE LET known_face_img == NpArray(loaded[1])
                  r == GenerateFaceEncoding(unknown_photo_base64)
              IN
              IF ~r.res.success
              THEN [res |-> CompareFailure(r.res.message),
                    done |-> {"parse", "encode"} \cup r.done]
              ELSE IF fault
              THEN [res |-> CompareFailure("Error comparing faces"),
                    done |-> {"parse", "encode", "train", "fault"} \cup r.done]
              ELSE LET unknown == NpArray(JsonLoads(r.res.encoding[1])[1])
                       p == Predict(<<known_face_img>>, <<0>>, unknown)
                       match == IsMatch(p[2], tol)
                   IN  [res |-> [success |-> TRUE, match |-> match,
                                 distance |-> Some(p[2]),
                                 message |-> IF match THEN "Face matched!"
                                             ELSE "Face does not match"],
                        done |-> {"parse", "encode", "train", "predict"} \cup r.done]

-----------------------------------------------------------------------------
(* Inputs of the calls *)

Boxes == {<<0, 0, MinFaceSize, MinFaceSize>>, <<10, 20, 80, 120>>,
          <<50, 40, FaceSize, FaceSize>>}

Resolutions == {<<480, 640>>, <<130, 160>>}

\* an image of resolution dim (height, width) in which the detector finds n
\* faces of the same size
Photograph(dim, n, box, p) == ImagePiece(dim[1], dim[2], [i \in 1..n |-> box], p)

\* a box <<x, y, w, h>> the detector can report lies inside the image
Fits(dim, box) == box[2] + box[4] <= dim[1] /\ box[1] + box[3] <= dim[2]

Photographs ==
    UNION {{Photograph(dim, n, box, p) :
               n \in 0..MaxFaces, box \in {b \in Boxes : Fits(dim, b)}, p \in {1, 2}} :
           dim \in Resolutions}

\* photographs given to generate_face_encoding: nothing, undecodable text, an
\* image with or without the data-URL header, an image followed by more text
EncoderPhotos ==
    {<<>>, <<JunkPiece>>, <<HeaderPiece, JunkPiece>>}
    \cup {<<img>> : img \in Photographs}
    \cup {<<HeaderPiece, img>> : img \in Photographs}
    \cup {<<Photograph(<<480, 640>>, 1, box, 1), JunkPiece>> : box \in Boxes}

\* photographs given to compare_faces and recognize_face_from_database
QueryPhotos ==
    {<<>>, <<JunkPiece>>,
     <<Photograph(<<480, 640>>, 0, <<0, 0, MinFaceSize, MinFaceSize>>, 1)>>,
     <<Photograph(<<480, 640>>, 2, <<10, 20, 80, 120>>, 1)>>,
     <<Photograph(<<480, 640>>, 1, <<10, 20, 80, 120>>, 1)>>,
     <<HeaderPiece, Photograph(<<130, 160>>, 1, <<0, 0, MinFaceSize, MinFaceSize>>, 2)>>}

Sample(p) == Grid(FaceSize, FaceSize, p)
WrongSizeSample == Grid(50, 50, 1)
EmptySample == JList(<<>>)
FlatSample == JRep(FaceSize, JNum(1))

\* stored face_encoding texts: absent, no JSON, JSON that is no list, an empty
\* list, one grid (legacy shape), a list of grids (current shape), and lists
\* whose first item is no grid
Records ==
    {EmptyText, GarbageText, JsonDumps(JNull), JsonDumps(JList(<<>>)),
     JsonDumps(Sample(1)), JsonDumps(Sample(3)), JsonDumps(WrongSizeSample),
     JsonDumps(JList(<<Sample(1), Sample(2)>>)),
     JsonDumps(JList(<<Sample(2), WrongSizeSample, Sample(2)>>)),
     JsonDumps(JList(<<WrongSizeSample, Sample(3)>>)),
     JsonDumps(JList(<<WrongSizeSample>>)),
     JsonDumps(JList(<<EmptySample, Sample(1)>>)),
     JsonDumps(JList(<<FlatSample, Sample(2)>>))}

\* the key of the i-th entry of the mapping
UserId(i) == 100 + i

KnownDicts ==
    {[i \in 1..Len(recs) |-> <<UserId(i), recs[i]>>] :
        recs \in UNION {[1..n -> Records] : n \in 0..MaxUsers}}

Tolerances == {0, DefaultToleranceCompare, DefaultToleranceRecognize, 100}

NoResult == [success |-> FALSE, message |-> "none"]

\* the requests served at the same time
Procs == {1, 2}

\* a request that is in no call
IdleCall ==
    [pc |-> "idle", fn |-> "none", photo |-> <<>>, known |-> <<>>, tolerance |-> 0,
     fault |-> FALSE, overlapped |-> FALSE, unknown_face_img |-> None, idx |-> 0,
     result |-> NoResult]

\* lines 272-274: the lists and the map a call starts with
EmptyCell == [imgs |-> <<>>, labels |-> <<>>, map |-> <<>>]

-----------------------------------------------------------------------------
(* The state machine *)

\* an administrator's request that is not being served
IdleRequest == [pc |-> "idle", op |-> "none", user_id |-> 0]

\* a response: the handler, the user it is about, the status code; for a
\* register or a login also the body of the request
NoResponse == [op |-> "none", user_id |-> 0, code |-> 0, data |-> <<>>]

\* approved: the users that ever were APPROVED; logins: the users that logged
\* in; successes: the approve and reject requests answered 200, as (op, id,
\* request); writes: the status writes, as (id, status before, status after)
NoHistory == [approved |-> {}, logins |-> {}, successes |-> {}, writes |-> {}]

\* no request has reached routes/auth.py
InitNoAuth ==
    /\ users = <<>>
    /\ inflight = [p \in Procs |-> IdleRequest]
    /\ response = NoResponse
    /\ history = NoHistory

\* no request is being served
InitRequest ==
    /\ available \in BOOLEAN
    /\ pc = "idle"
    /\ fn = "none"
    /\ photo = <<>>
    /\ known = <<>>
    /\ tolerance = 0
    /\ ops = {}
    /\ unknown_face_img = None
    /\ idx = 0
    /\ train_imgs = <<>>
    /\ train_labels = <<>>
    /\ user_id_to_label = <<>>
    /\ result = NoResult

Init ==
    /\ InitRequest
    /\ seen = None
    /\ store = <<>>
    /\ calls = [p \in Procs |-> IdleCall]
    /\ cells = [p \in Procs |-> EmptyCell]
    /\ InitNoAuth

\* a request calls generate_face_encoding(photo_base64)
CallGenerate ==
    /\ pc = "idle"
    /\ \E ph \in EncoderPhotos :
          /\ photo' = ph
          /\ result' = GenerateFaceEncoding(ph).res
          /\ ops' = GenerateFaceEncoding(ph).done
    /\ fn' = "generate"
    /\ pc' = "returned"
    /\ UNCHANGED <<available, known, tolerance, unknown_face_img, idx, train_imgs,
                   train_labels, user_id_to_label>>
    /\ UNCHANGED aux

\* a request calls compare_faces(known_encoding_json, photo, tolerance)
CallCompare ==
    /\ pc = "idle"
    /\ \E enc \in Records, ph \in QueryPhotos, tol \in Tolerances, fault \in BOOLEAN :
          /\ known' = enc
          /\ photo' = ph
          /\ tolerance' = tol
          /\ result' = CompareFaces(enc, ph, tol, fault).res
          /\ ops' = CompareFaces(enc, ph, tol, fault).done
    /\ fn' = "compare"
    /\ pc' = "returned"
    /\ UNCHANGED <<available, unknown_face_img, idx, train_imgs, train_labels,
                   user_id_to_label>>
    /\ UNCHANGED aux

\* a request calls recognize_face_from_database(photo, known_faces_dict, tolerance)
CallRecognize ==
    /\ pc = "idle"
    /\ photo' \in QueryPhotos
    /\ known' \in KnownDicts
    /\ tolerance' \in Tolerances
    /\ fn' = "recognize"
    /\ pc' = "rec_entry"
    /\ UNCHANGED <<available, ops, unknown_face_img, idx, train_imgs, train_labels,
                   user_id_to_label, result>>
    /\ UNCHANGED aux

\* lines 235-251: the availability check, then the empty-mapping check
RecGuards ==
    /\ pc = "rec_entry"
    /\ IF FeatureUnavailable
       THEN /\ result' = RecognizeFailure("Face recognition library not available")
            /\ pc' = "returned"
       ELSE IF NoKnownFaces(known)
       THEN /\ result' = RecognizeFailure("No registered faces in database")
            /\ pc' = "returned"
       ELSE /\ pc' = "rec_encode"
            /\ UNCHANGED result
    /\ UNCHANGED <<available, fn, photo, known, tolerance, ops, unknown_face_img, idx,
                   train_imgs, train_labels, user_id_to_label>>
    /\ UNCHANGED aux

\* lines 258-274: encode the query photograph, start the loop
RecEncode ==
    /\ pc = "rec_encode"
    /\ LET r == GenerateFaceEncoding(photo)
       IN  /\ ops' = ops \cup {"encode"} \cup r.done
           /\ IF ~r.res.success
              THEN /\ result' = RecognizeFailure(EncoderMessage(r.res))
                   /\ pc' = "returned"
                   /\ UNCHANGED <<unknown_face_img, idx>>
              ELSE /\ unknown_face_img' = Some(NpArray(JsonLoads(r.res.encoding[1])[1]))
                   /\ idx' = 1
                   /\ pc' = "rec_loop"
                   /\ UNCHANGED result
    /\ UNCHANGED <<available, fn, photo, known, tolerance, train_imgs, train_labels,
                   user_id_to_label>>
    /\ UNCHANGED aux

\* lines 276-329: one iteration of the loop over the mapping
RecParse ==
    /\ pc = "rec_loop"
    /\ idx <= Len(known)
    /\ LET st == ParseUser([imgs |-> train_imgs, labels |-> train_labels,
                            map |-> user_id_to_label],
                           known[idx][1], known[idx][2])
       IN  /\ train_imgs' = st.imgs
           /\ train_labels' = st.labels
           /\ user_id_to_label' = st.map
    /\ ops' = IF known[idx][2].k = "empty" THEN ops ELSE ops \cup {"parse"}
    /\ idx' = idx + 1
    /\ UNCHANGED <<available, pc, fn, photo, known, tolerance, unknown_face_img, result>>
    /\ UNCHANGED aux

\* lines 335-342: the loop is over; an empty training set ends the call
RecCheckTrain ==
    /\ pc = "rec_loop"
    /\ idx > Len(known)
    /\ IF NoTrainingData(train_imgs)
       THEN /\ result' = RecognizeFailure("No valid face encodings in database")
            /\ pc' = "returned"
       ELSE /\ pc' = "rec_train"
            /\ UNCHANGED result
    /\ UNCHANGED <<available, fn, photo, known, tolerance, ops, unknown_face_img, idx,
                   train_imgs, train_labels, user_id_to_label>>
    /\ UNCHANGED aux

\* lines 346-384: train, predict, decide; a classifier fault (cv2.face missing,
\* empty training data) is caught by the except clause
RecTrainPredict ==
    /\ pc = "rec_train"
    /\ \E fault \in BOOLEAN :
          IF fault \/ Len(train_imgs) = 0
          THEN /\ result' = RecognizeExcept
               /\ ops' = ops \cup {"train", "fault"}
          ELSE LET p == Predict(train_imgs, train_labels, unknown_face_img[1])
                   label == p[1]
                   confidence == p[2]
                   match == IsMatch(confidence, tolerance)
               IN  /\ result' = RecognizeResult(match,
                                                LabelOwner(user_id_to_label, label),
                                                confidence)
                   /\ ops' = ops \cup {"train", "predict"}
    /\ pc' = "returned"
    /\ UNCHANGED <<available, fn, photo, known, tolerance, unknown_face_img, idx,
                   train_imgs, train_labels, user_id_to_label>>
    /\ UNCHANGED aux

\* the caller has the result; the call's locals are gone and the module's
\* flag is as the call found it
ReturnCall ==
    /\ pc = "returned"
    /\ pc' = "idle"
    /\ fn' = "none"
    /\ photo' = <<>>
    /\ known' = <<>>
    /\ tolerance' = 0
    /\ ops' = {}
    /\ unknown_face_img' = None
    /\ idx' = 0
    /\ train_imgs' = <<>>
    /\ train_labels' = <<>>
    /\ user_id_to_label' = <<>>
    /\ result' = NoResult
    /\ available' = FlagAfterCall(available)

Return ==
    /\ ReturnCall
    /\ UNCHANGED aux

Next ==
    \/ CallGenerate
    \/ CallCompare
    \/ CallRecognize
    \/ RecGuards
    \/ RecEncode
    \/ RecParse
    \/ RecCheckTrain
    \/ RecTrainPredict
    \/ Return

Spec == Init /\ [][Next]_vars

-----------------------------------------------------------------------------
(* Vocabulary of the properties *)

Returned(f) == pc = "returned" /\ fn = f

\* the image a photograph decodes to, when it does
Decodable(ph) == ph # <<>> /\ Base64ToImage(ph) # None
FacesIn(ph) == Len(Base64ToImage(ph)[1].faces)

\* the Face Samples a stored text holds: the grid itself for a record of the
\* legacy shape (one 2-D grid), the items of the list otherwise
StoredSamples(text) ==
    IF text.k # "json" THEN <<>>
    ELSE LET tree == text.v[1]
         IN  IF ~IsList(tree) THEN <<>>
             ELSE IF NpShape(tree) # ShapeError /\ Len(NpShape(tree)) = 2 THEN <<tree>>
             ELSE PyItems(tree)

IsValidSample(sample) == NpShape(sample) = <<100, 100>>

IsGrid(sample) == NpShape(sample) # ShapeError /\ Len(NpShape(sample)) = 2

ValidSamples(text) == SelectSeq(StoredSamples(text), IsValidSample)

\* a record of the legacy shape: one 2-D grid
LegacyShaped(text) ==
    /\ text.k = "json"
    /\ IsList(text.v[1])
    /\ IsGrid(text.v[1])

\* a record of the current shape: a non-empty list of 2-D grids
CurrentShaped(text) ==
    /\ text.k = "json"
    /\ IsList(text.v[1])
    /\ ~IsGrid(text.v[1])
    /\ PyLen(text.v[1]) > 0
    /\ \A i \in 1..PyLen(text.v[1]) : IsGrid(PyItems(text.v[1])[i])

\* a record all of whose samples are valid, and one that is corrupted: no JSON,
\* or JSON holding no sample or a sample of the wrong dimensions
ValidRecord(text) ==
    /\ StoredSamples(text) # <<>>
    /\ ValidSamples(text) = StoredSamples(text)
CorruptedRecord(text) == text.k # "empty" /\ ~ValidRecord(text)

\* the training images that carry the label of identity uid, in training order
TrainingDataOf(uid) ==
    LET pick[k \in 0..Len(train_imgs)] ==
            IF k = 0 THEN <<>>
            ELSE IF LabelOwner(user_id_to_label, train_labels[k]) = Some(uid)
                 THEN Append(pick[k - 1], train_imgs[k].data)
                 ELSE pick[k - 1]
    IN  pick[Len(train_imgs)]

\* the query photograph was encoded and the loop over the mapping is over
LoopDone ==
    /\ fn = "recognize"
    /\ unknown_face_img # None
    /\ \/ pc = "rec_loop" /\ idx > Len(known)
       \/ pc = "rec_train"
       \/ pc = "returned"

-----------------------------------------------------------------------------
(* Properties *)

\* C1: with the availability flag false, generate_face_encoding, compare_faces
\* and recognize_face_from_database return their "not available" failure for
\* every input, and no decoding, detection, parsing, encoding or training has
\* been done by the call.
C1_UnavailableGatesEveryEntryPoint ==
    ~available =>
        /\ pc \in {"idle", "rec_entry", "returned"}
        /\ ops = {}
        /\ Returned("generate") =>
              result = EncodeFailure("OpenCV (cv2) library not available", 0)
        /\ Returned("compare") =>
              result = CompareFailure("Face recognition library not available")
        /\ Returned("recognize") =>
              result = RecognizeFailure("Face recognition library not available")

C1_Witness ==
    /\ ~available
    /\ Returned("recognize")
    /\ known # <<>>
    /\ Decodable(photo) /\ FacesIn(photo) = 1
    /\ result.message = "Face recognition library not available"

\* C2: generate_face_encoding on a decodable photograph in which the detector
\* finds no face returns the "No face detected" failure: success false,
\* face_count 0 and no encoding.
C2_NoFaceIsFailure ==
    (Returned("generate") /\ available /\ Decodable(photo) /\ FacesIn(photo) = 0) =>
        /\ result.success = FALSE
        /\ result.face_count = 0
        /\ result.encoding = None
        /\ result.message = "No face detected in the photo"

C2_Witness ==
    /\ Returned("generate") /\ available /\ Decodable(photo) /\ FacesIn(photo) = 0
    /\ result.message = "No face detected in the photo"

\* C3: generate_face_encoding on a photograph with n >= 2 detected faces returns
\* a failure without encoding whose face_count is exactly n.
C3_MultipleFacesCount ==
    (Returned("generate") /\ available /\ Decodable(photo) /\ FacesIn(photo) >= 2) =>
        /\ result.success = FALSE
        /\ result.encoding = None
        /\ result.face_count = FacesIn(photo)
        /\ result.message = "Multiple faces detected"

C3_Witness ==
    /\ Returned("generate") /\ available /\ Decodable(photo) /\ FacesIn(photo) = 3
    /\ result.face_count = 3

\* C4: generate_face_encoding on a decodable photograph with exactly one
\* detected face returns success, face_count 1 and an encoding that
\* deserializes to a 100 x 100 grid, whatever the size of the bounding box.
C4_SingleFaceFixedSize ==
    (Returned("generate") /\ available /\ Decodable(photo) /\ FacesIn(photo) = 1) =>
        /\ result.success = TRUE
        /\ result.face_count = 1
        /\ result.encoding # None
        /\ JsonLoads(result.encoding[1]) # None
        /\ NpShape(JsonLoads(result.encoding[1])[1]) = <<100, 100>>

C4_Witness ==
    /\ Returned("generate") /\ available /\ Decodable(photo) /\ FacesIn(photo) = 1
    /\ Base64ToImage(photo)[1].faces[1] = <<10, 20, 80, 120>>
    /\ result.success = TRUE

\* C5: recognize_face_from_database on an empty mapping returns a failure with
\* recognized false and no user_id for every query photograph, without
\* encoding the photograph and without parsing or training; the failure is the
\* "No registered faces" result (when the feature is unavailable the
\* availability check, which comes first, gives its own failure).
C5_EmptyMappingFailsFast ==
    (fn = "recognize" /\ known = <<>>) =>
        /\ pc \in {"rec_entry", "returned"}
        /\ ops = {}
        /\ unknown_face_img = None
        /\ pc = "returned" =>
              /\ result.success = FALSE
              /\ result.recognized = FALSE
              /\ result.user_id = None
              /\ available => result = RecognizeFailure("No registered faces in database")

C5_Witness ==
    /\ Returned("recognize") /\ available /\ known = <<>>
    /\ photo = <<JunkPiece>>
    /\ result.message = "No registered faces in database"

\* C6: once the loop over the mapping is over, the training images labelled
\* with an identity are exactly the valid Face Samples of that identity's
\* record, whatever their position in the record and whatever the other
\* samples of the record are.
C6_EveryValidSampleTrained ==
    LoopDone =>
        \A i \in 1..Len(known) :
            TrainingDataOf(known[i][1]) = ValidSamples(known[i][2])

\* C7: with at least two identities of which one has a corrupted record and
\* one a valid record, the call is not failed by the corruption: the samples
\* of every valid record are trained under their identity, every training
\* image is a valid sample of its identity's record, and the call returns
\* success unless the classifier itself raised.
C7_CorruptedRecordTolerated ==
    (/\ LoopDone
     /\ Len(known) >= 2
     /\ \E i \in 1..Len(known) : CorruptedRecord(known[i][2])
     /\ \E i \in 1..Len(known) : ValidRecord(known[i][2])) =>
        /\ \A i \in 1..Len(known) :
              ValidRecord(known[i][2]) =>
                  TrainingDataOf(known[i][1]) = ValidSamples(known[i][2])
        /\ \A k \in 1..Len(train_imgs) :
              /\ train_imgs[k].shape = <<100, 100>>
              /\ \E i \in 1..Len(known) :
                    /\ LabelOwner(user_id_to_label, train_labels[k]) = Some(known[i][1])
                    /\ \E m \in 1..Len(ValidSamples(known[i][2])) :
                          ValidSamples(known[i][2])[m] = train_imgs[k].data
        /\ (pc = "returned" /\ "fault" \notin ops) => result.success = TRUE

C7_Witness ==
    /\ LoopDone /\ pc = "returned"
    /\ Len(known) = 2
    /\ known[1][2] = GarbageText
    /\ known[2][2] = JsonDumps(Sample(1))
    /\ result.success = TRUE
    /\ Len(train_imgs) = 1

\* C8: with a non-empty mapping and a query photograph that encoded, if no
\* stored sample of any identity is valid the call returns the "No valid face
\* encodings" failure and the classifier is never trained or asked to predict.
C8_NoValidSamplesFailure ==
    (/\ fn = "recognize"
     /\ unknown_face_img # None
     /\ \A i \in 1..Len(known) : ValidSamples(known[i][2]) = <<>>) =>
        /\ pc \in {"rec_loop", "returned"}
        /\ ops \cap {"train", "predict"} = {}
        /\ pc = "returned" =>
              result = RecognizeFailure("No valid face encodings in database")

C8_Witness ==
    /\ Returned("recognize")
    /\ unknown_face_img # None
    /\ Len(known) = 2
    /\ known[1][2] = JsonDumps(WrongSizeSample)
    /\ known[2][2] = JsonDumps(JList(<<WrongSizeSample>>))
    /\ result.message = "No valid face encodings in database"

\* C9: when the mapping holds a record of the legacy shape and a record of the
\* current shape, every record of either shape contributes exactly its valid
\* grids to the training set, under its own identity's label: a valid legacy
\* record one sample, a current record one sample per valid grid.
C9_LegacyAndCurrentShapes ==
    (/\ LoopDone
     /\ \E i \in 1..Len(known) : LegacyShaped(known[i][2])
     /\ \E i \in 1..Len(known) : CurrentShaped(known[i][2])) =>
        \A i \in 1..Len(known) :
            /\ LegacyShaped(known[i][2]) =>
                  TrainingDataOf(known[i][1])
                      = IF IsValidSample(known[i][2].v[1])
                        THEN <<known[i][2].v[1]>> ELSE <<>>
            /\ CurrentShaped(known[i][2]) =>
                  TrainingDataOf(known[i][1])
                      = SelectSeq(PyItems(known[i][2].v[1]), IsValidSample)

C9_Witness ==
    /\ LoopDone
    /\ Len(known) = 2
    /\ known[1][2] = JsonDumps(Sample(3))
    /\ known[2][2] = JsonDumps(JList(<<Sample(2), WrongSizeSample, Sample(2)>>))
    /\ TrainingDataOf(known[1][1]) = <<Sample(3)>>
    /\ TrainingDataOf(known[2][1]) = <<Sample(2), Sample(2)>>

\* C10: once prediction has produced a distance d, the call reports
\* recognized = TRUE iff d < tolerance * 100; at d >= tolerance * 100 it reports
\* recognized = FALSE and no user_id, and d is returned in either case.
C10_StrictThreshold ==
    (Returned("recognize") /\ "predict" \in ops) =>
        /\ result.distance # None
        /\ result.recognized = (result.distance[1] < tolerance * 100)
        /\ ~result.recognized => result.user_id = None
        /\ result.distance[1]
              = Predict(train_imgs, train_labels, unknown_face_img[1])[2]

C10_Witness ==
    /\ Returned("recognize") /\ "predict" \in ops
    /\ tolerance > 0
    /\ result.distance = Some(tolerance * 100)
    /\ result.recognized = FALSE
    /\ result.user_id = None

-----------------------------------------------------------------------------
(* Properties of the label map, of the result and of the order of the steps *)

\* the query photograph is one the Encoder turns into a Face Sample
QueryEncodes(ph) == Decodable(ph) /\ FacesIn(ph) = 1

\* the message of the Encoder for a photograph it does not encode
EncoderFailureMessage(ph) ==
    IF ph = <<>> THEN "No photo provided"
    ELSE IF ~Decodable(ph) THEN "Failed to decode image"
    ELSE IF FacesIn(ph) = 0 THEN "No face detected in the photo"
    ELSE "Multiple faces detected"

\* C11: the label map gives distinct labels to distinct identities, and on
\* acceptance the returned user_id is the identity the map holds for the
\* predicted label: it is never None, it is a key of the mapping, and the
\* training images carrying that label are valid samples of its record.
C11_AcceptedIdentityOwnsLabel ==
    fn = "recognize" =>
        /\ \A a, b \in DOMAIN user_id_to_label :
              user_id_to_label[a] = user_id_to_label[b] => a = b
        /\ (pc = "returned" /\ "predict" \in ops /\ result.recognized) =>
              LET label == Predict(train_imgs, train_labels, unknown_face_img[1])[1]
              IN  /\ result.user_id # None
                  /\ label + 1 \in DOMAIN user_id_to_label
                  /\ result.user_id = Some(user_id_to_label[label + 1])
                  /\ \E i \in 1..Len(known) :
                        /\ known[i][1] = result.user_id[1]
                        /\ \A k \in 1..Len(train_imgs) :
                              train_labels[k] = label =>
                                  \E m \in 1..Len(ValidSamples(known[i][2])) :
                                      ValidSamples(known[i][2])[m] = train_imgs[k].data

C11_Witness ==
    /\ Returned("recognize") /\ "predict" \in ops
    /\ result.recognized = TRUE
    /\ Len(known) = 2
    /\ user_id_to_label = <<101, 102>>
    /\ result.user_id = Some(102)

\* C12: recognize_face_from_database reports success = TRUE exactly when
\* training and prediction completed without an exception, whether or not a
\* match was found; success = FALSE has a pipeline failure as its cause: the
\* feature is unavailable, the mapping is empty, the query photograph did not
\* encode, no training data was left, or the classifier raised.
C12_SuccessMeansPredictionCompleted ==
    Returned("recognize") =>
        /\ result.success = ("predict" \in ops)
        /\ "predict" \in ops => ("train" \in ops /\ "fault" \notin ops)
        /\ result.success = FALSE =>
              \/ ~available
              \/ known = <<>>
              \/ ~QueryEncodes(photo)
              \/ train_imgs = <<>>
              \/ "fault" \in ops

C12_Witness ==
    /\ Returned("recognize")
    /\ result.success = TRUE
    /\ result.recognized = FALSE
    /\ "predict" \in ops

\* C13: no call raises to its caller: what a call returns is a dictionary with
\* a success field and a message, also for an undecodable photograph, an
\* unparsable or wrongly-shaped stored text and a classifier fault; and until
\* it has returned the call is at a step that can be taken with the values it
\* needs (the encoded query, one label per training image).
C13_NeverRaises ==
    /\ pc \in {"idle", "rec_entry", "rec_encode", "rec_loop", "rec_train", "returned"}
    /\ pc = "returned" =>
          /\ {"success", "message"} \subseteq DOMAIN result
          /\ result.success \in BOOLEAN
          /\ fn = "generate" => {"encoding", "face_count"} \subseteq DOMAIN result
          /\ fn = "compare" => {"match", "distance"} \subseteq DOMAIN result
          /\ fn = "recognize" => {"recognized", "user_id", "distance"} \subseteq DOMAIN result
    /\ pc \in {"rec_loop", "rec_train"} =>
          /\ unknown_face_img # None
          /\ idx \in 1..(Len(known) + 1)
          /\ Len(train_imgs) = Len(train_labels)
    /\ pc = "rec_train" => train_imgs # <<>>

C13_Witness ==
    /\ Returned("recognize")
    /\ "fault" \in ops
    /\ known[1][2] = GarbageText
    /\ result.success = FALSE
    /\ result.message = "Error recognizing face"

\* C15: a record without a valid sample never takes part in matching: no
\* training label belongs to its identity and its identity is never the
\* user_id of a result, also when the identity was given a label.
C15_NoValidSampleNoMatch ==
    fn = "recognize" =>
        /\ \A k \in 1..Len(train_labels) :
              \E i \in 1..Len(known) :
                  /\ known[i][1] = user_id_to_label[train_labels[k] + 1]
                  /\ ValidSamples(known[i][2]) # <<>>
        /\ (pc = "returned" /\ result.user_id # None) =>
              \E i \in 1..Len(known) :
                  /\ known[i][1] = result.user_id[1]
                  /\ ValidSamples(known[i][2]) # <<>>

C15_Witness ==
    /\ Returned("recognize")
    /\ Len(known) = 2
    /\ known[1][2] = JsonDumps(WrongSizeSample)
    /\ user_id_to_label = <<101, 102>>
    /\ result.recognized = TRUE
    /\ result.user_id = Some(102)

\* C18: a photograph text without a comma and the same text behind a data-URL
\* header "data:<mime>;base64," give the same result of generate_face_encoding.
C18_DataUrlPrefixStripped ==
    Returned("generate") =>
        /\ Len(photo) = 1 =>
              result = GenerateFaceEncoding(<<HeaderPiece>> \o photo).res
        /\ (Len(photo) = 2 /\ photo[1] = HeaderPiece) =>
              result = GenerateFaceEncoding(<<photo[2]>>).res

C18_Witness ==
    /\ Returned("generate")
    /\ Len(photo) = 2 /\ photo[1] = HeaderPiece
    /\ photo[2].kind = "img" /\ Len(photo[2].faces) = 1
    /\ result.success = TRUE

\* C20: recognize_face_from_database checks availability, then the empty
\* mapping, then encodes the query photograph, then parses the records, then
\* checks the training set, then trains and predicts, and returns at the first
\* failing step; when the photograph does not encode the result is the failure
\* carrying the Encoder's message, no record was parsed and nothing trained.
C20_FixedOrderOfChecks ==
    fn = "recognize" =>
        /\ ops # {} => (available /\ known # <<>>)
        /\ idx >= 1 => ("encode" \in ops /\ QueryEncodes(photo))
        /\ "parse" \in ops => idx >= 2
        /\ "train" \in ops => (idx > Len(known) /\ train_imgs # <<>>)
        /\ "predict" \in ops => "train" \in ops
        /\ pc = "returned" =>
              IF ~available
              THEN result = RecognizeFailure("Face recognition library not available")
              ELSE IF known = <<>>
              THEN result = RecognizeFailure("No registered faces in database")
              ELSE IF ~QueryEncodes(photo)
              THEN /\ result = RecognizeFailure(EncoderFailureMessage(photo))
                   /\ ops \cap {"parse", "train", "predict"} = {}
                   /\ idx = 0
                   /\ train_imgs = <<>> /\ user_id_to_label = <<>>
              ELSE IF train_imgs = <<>>
              THEN /\ result = RecognizeFailure("No valid face encodings in database")
                   /\ "train" \notin ops
              ELSE "train" \in ops

C20_Witness ==
    /\ Returned("recognize")
    /\ available /\ known # <<>>
    /\ Decodable(photo) /\ FacesIn(photo) = 2
    /\ result = RecognizeFailure("Multiple faces detected")
    /\ ops = {"encode", "decode", "detect"}

-----------------------------------------------------------------------------
(* Recognition against one enrolled identity: a record of one sample or of  *)
(* seven, and tolerances over the whole range                               *)

SamplesPerUser == 7

\* seven samples of three different contents
SevenSamples == JList([i \in 1..SamplesPerUser |-> Sample(1 + (i % 3))])

EnrolledRecords ==
    {JsonDumps(Sample(1)), JsonDumps(Sample(3)), JsonDumps(JList(<<Sample(2)>>)),
     JsonDumps(SevenSamples),
     JsonDumps(JList([i \in 1..SamplesPerUser |-> Sample(3)]))}

EnrolledTolerances == Tolerances \cup {1, 50}

\* a request calls recognize_face_from_database with one enrolled identity
CallRecognizeEnrolled ==
    /\ pc = "idle"
    /\ photo' \in QueryPhotos
    /\ \E rec \in EnrolledRecords : known' = <<<<UserId(1), rec>>>>
    /\ tolerance' \in EnrolledTolerances
    /\ fn' = "recognize"
    /\ pc' = "rec_entry"
    /\ UNCHANGED <<available, ops, unknown_face_img, idx, train_imgs, train_labels,
                   user_id_to_label, result>>
    /\ UNCHANGED aux

NextEnrolled ==
    \/ CallRecognizeEnrolled
    \/ RecGuards
    \/ RecEncode
    \/ RecParse
    \/ RecCheckTrain
    \/ RecTrainPredict
    \/ Return

SpecEnrolled == Init /\ [][NextEnrolled]_vars

\* one enrolled identity, all of whose samples are valid and one of which is
\* bit-identical to the query sample; the classifier did not raise
IdenticalSampleEnrolled ==
    /\ Returned("recognize")
    /\ unknown_face_img # None
    /\ Len(known) = 1
    /\ ValidRecord(known[1][2])
    /\ \E m \in 1..Len(ValidSamples(known[1][2])) :
          ValidSamples(known[1][2])[m] = unknown_face_img[1].data
    /\ "fault" \notin ops

\* C14 as stated: with one enrolled identity whose stored sample (its only one,
\* or one of seven) is bit-identical to the query sample, the call returns
\* recognized = TRUE with that identity and distance 0, for every tolerance in
\* [0, 1].
C14_IdenticalSampleAnyTolerance ==
    IdenticalSampleEnrolled =>
        /\ result.recognized = TRUE
        /\ result.user_id = Some(known[1][1])
        /\ result.distance = Some(0)

\* C14 amended: the same for every tolerance in (0, 1]; at tolerance 0 the
\* distance 0 is returned but 0 < 0 fails, so recognized is FALSE and there is
\* no user_id.
C14_IdenticalSamplePositiveTolerance ==
    IdenticalSampleEnrolled =>
        /\ result.success = TRUE
        /\ result.distance = Some(0)
        /\ tolerance > 0 =>
              /\ result.recognized = TRUE
              /\ result.user_id = Some(known[1][1])
        /\ tolerance = 0 =>
              /\ result.recognized = FALSE
              /\ result.user_id = None

C14_Witness ==
    /\ IdenticalSampleEnrolled
    /\ known[1][2] = JsonDumps(SevenSamples)
    /\ tolerance = 1
    /\ result.recognized = TRUE
    /\ result.user_id = Some(101)
    /\ result.distance = Some(0)

-----------------------------------------------------------------------------
(* A caller that repeats a generate_face_encoding call after other calls    *)

\* a request calls generate_face_encoding(photo_base64)
CallGenerateSession ==
    /\ pc = "idle"
    /\ \E ph \in QueryPhotos :
          /\ photo' = ph
          /\ result' = GenerateFaceEncoding(ph).res
          /\ ops' = GenerateFaceEncoding(ph).done
    /\ fn' = "generate"
    /\ pc' = "returned"
    /\ UNCHANGED <<available, known, tolerance, unknown_face_img, idx, train_imgs,
                   train_labels, user_id_to_label>>
    /\ UNCHANGED aux

\* the call returns; the caller keeps the photograph and the result of one
\* generate_face_encoding call and notes which entry points ran after it
ReturnSession ==
    /\ ReturnCall
    /\ \/ /\ fn = "generate"
          /\ seen = None
          /\ seen' = Some([photo |-> photo, result |-> result, flag |-> available,
                           between |-> {}])
       \/ /\ seen = None
          /\ UNCHANGED seen
       \/ /\ seen # None
          /\ seen' = Some([seen[1] EXCEPT !.between = @ \cup {fn}])
    /\ UNCHANGED <<store, calls, cells, auth>>

NextSession ==
    \/ CallGenerateSession
    \/ CallRecognizeEnrolled
    \/ RecGuards
    \/ RecEncode
    \/ RecParse
    \/ RecCheckTrain
    \/ RecTrainPredict
    \/ ReturnSession

SpecSession == Init /\ [][NextSession]_vars

-----------------------------------------------------------------------------
(* Requests served at the same time, and re-enrollment during a call        *)

\* the variables of the single request of the specifications above
request == <<pc, fn, photo, known, tolerance, ops, unknown_face_img, idx,
             train_imgs, train_labels, user_id_to_label, result>>

\* a variant in which the lists and the map are module-level, one for all calls
SharedCell(p) == 1

\* lines 272-274: the lists and the map are locals, so each call has its own
Cell(p) == p

\* a variant in which the loop reads the rows of the identity store
MappingLive(snapshot, live) == live

\* the loop iterates the dict the caller built for this call from the rows it
\* read (known_faces = {user.id: user.face_encoding for user in users})
MappingRead(snapshot, live) == snapshot

ServerPhotos ==
    {<<JunkPiece>>,
     <<Photograph(<<480, 640>>, 1, <<10, 20, 80, 120>>, 1)>>,
     <<HeaderPiece, Photograph(<<130, 160>>, 1, <<0, 0, MinFaceSize, MinFaceSize>>, 2)>>}

ServerRecords ==
    {JsonDumps(Sample(1)), JsonDumps(JList(<<Sample(2), Sample(3)>>)), GarbageText}

ServerUsers == {UserId(1), UserId(2)}

\* the rows of the identity store, one per user
Stores ==
    {<<>>}
    \cup {<<<<u, r>>>> : u \in ServerUsers, r \in ServerRecords}
    \cup {<<<<u[1], r[1]>>, <<u[2], r[2]>>>> :
             u \in {w \in ServerUsers \X ServerUsers : w[1] # w[2]},
             r \in ServerRecords \X ServerRecords}

ConcurrentStores ==
    {<<<<UserId(1), JsonDumps(Sample(1))>>>>,
     <<<<UserId(1), JsonDumps(Sample(1))>>,
       <<UserId(2), JsonDumps(JList(<<Sample(2), Sample(3)>>))>>>>,
     <<<<UserId(1), GarbageText>>, <<UserId(2), JsonDumps(Sample(1))>>>>}

\* the loop over the whole mapping, from position i
RECURSIVE ParseAll(_, _, _)
ParseAll(st, items, i) ==
    IF i > Len(items) THEN st
    ELSE ParseAll(ParseUser(st, items[i][1], items[i][2]), items, i + 1)

\* recognize_face_from_database run from entry to return with nothing else
\* running; fault: the classifier raises
RecognizeAlone(ph, kn, tol, fault) ==
    IF FeatureUnavailable
    THEN RecognizeFailure("Face recognition library not available")
    ELSE IF NoKnownFaces(kn)
    THEN RecognizeFailure("No registered faces in database")
    ELSE LET r == GenerateFaceEncoding(ph)
         IN
         IF ~r.res.success
         THEN RecognizeFailure(EncoderMessage(r.res))
         ELSE LET st == ParseAll(EmptyCell, kn, 1)
                  query == NpArray(JsonLoads(r.res.encoding[1])[1])
              IN
              IF NoTrainingData(st.imgs)
              THEN RecognizeFailure("No valid face encodings in database")
              ELSE IF fault
              THEN RecognizeExcept
              ELSE LET p == Predict(st.imgs, st.labels, query)
                   IN  RecognizeResult(IsMatch(p[2], tol), LabelOwner(st.map, p[1]), p[2])

\* request p calls generate_face_encoding(photo_base64)
PCallGenerate(p) ==
    /\ calls[p].pc = "idle"
    /\ \E ph \in ServerPhotos :
          calls' = [calls EXCEPT ![p] =
                       [IdleCall EXCEPT !.pc = "returned", !.fn = "generate",
                                        !.photo = ph,
                                        !.result = GenerateFaceEncoding(ph).res]]
    /\ UNCHANGED <<request, available, seen, store, cells, auth>>

\* request p reads the rows of the store, builds the dict from them and calls
\* recognize_face_from_database(photo, known_faces, tolerance)
PCallRecognize(p) ==
    /\ calls[p].pc = "idle"
    /\ \E ph \in ServerPhotos, tol \in {0, DefaultToleranceRecognize}, fault \in BOOLEAN :
          calls' = [calls EXCEPT ![p] =
                       [IdleCall EXCEPT !.pc = "rec_entry", !.fn = "recognize",
                                        !.photo = ph, !.known = store,
                                        !.tolerance = tol, !.fault = fault]]
    /\ UNCHANGED <<request, available, seen, store, cells, auth>>

\* lines 235-251
PGuards(p) ==
    /\ calls[p].pc = "rec_entry"
    /\ calls' = [calls EXCEPT ![p] =
          IF FeatureUnavailable
          THEN [@ EXCEPT !.pc = "returned",
                         !.result = RecognizeFailure("Face recognition library not available")]
          ELSE IF NoKnownFaces(@.known)
          THEN [@ EXCEPT !.pc = "returned",
                         !.result = RecognizeFailure("No registered faces in database")]
          ELSE [@ EXCEPT !.pc = "rec_encode"]]
    /\ UNCHANGED <<request, available, seen, store, cells, auth>>

\* lines 258-274
PEncode(p) ==
    /\ calls[p].pc = "rec_encode"
    /\ LET r == GenerateFaceEncoding(calls[p].photo)
       IN  IF ~r.res.success
           THEN /\ calls' = [calls EXCEPT ![p] =
                                [@ EXCEPT !.pc = "returned",
                                          !.result = RecognizeFailure(EncoderMessage(r.res))]]
                /\ UNCHANGED cells
           ELSE /\ calls' = [calls EXCEPT ![p] =
                                [@ EXCEPT !.pc = "rec_loop", !.idx = 1,
                                          !.unknown_face_img =
                                              Some(NpArray(JsonLoads(r.res.encoding[1])[1]))]]
                /\ cells' = [cells EXCEPT ![Cell(p)] = EmptyCell]
    /\ UNCHANGED <<request, available, seen, store, auth>>

\* lines 276-329: one iteration of the loop; a dict whose size changed since
\* the loop began makes the iterator raise RuntimeError, caught at line 376
PParse(p) ==
    LET c == calls[p]
        items == MappingRead(c.known, store)
    IN  /\ c.pc = "rec_loop"
        /\ Len(items) # Len(c.known) \/ c.idx <= Len(items)
        /\ IF Len(items) # Len(c.known)
           THEN /\ calls' = [calls EXCEPT ![p] =
                                [@ EXCEPT !.pc = "returned", !.result = RecognizeExcept]]
                /\ UNCHANGED cells
           ELSE /\ cells' = [cells EXCEPT ![Cell(p)] =
                                ParseUser(@, items[c.idx][1], items[c.idx][2])]
                /\ calls' = [calls EXCEPT ![p] = [@ EXCEPT !.idx = c.idx + 1]]
        /\ UNCHANGED <<request, available, seen, store, auth>>

\* lines 335-342
PCheckTrain(p) ==
    LET c == calls[p]
        items == MappingRead(c.known, store)
    IN  /\ c.pc = "rec_loop"
        /\ Len(items) = Len(c.known)
        /\ c.idx > Len(items)
        /\ calls' = [calls EXCEPT ![p] =
              IF NoTrainingData(cells[Cell(p)].imgs)
              THEN [@ EXCEPT !.pc = "returned",
                             !.result = RecognizeFailure("No valid face encodings in database")]
              ELSE [@ EXCEPT !.pc = "rec_train"]]
        /\ UNCHANGED <<request, available, seen, store, cells, auth>>

\* lines 346-384
PTrainPredict(p) ==
    LET c == calls[p]
        cell == cells[Cell(p)]
    IN  /\ c.pc = "rec_train"
        /\ calls' = [calls EXCEPT ![p] =
              IF c.fault \/ Len(cell.imgs) = 0
              THEN [@ EXCEPT !.pc = "returned", !.result = RecognizeExcept]
              ELSE LET pr == Predict(cell.imgs, cell.labels, c.unknown_face_img[1])
                   IN  [@ EXCEPT !.pc = "returned",
                                 !.result = RecognizeResult(IsMatch(pr[2], c.tolerance),
                                                            LabelOwner(cell.map, pr[1]),
                                                            pr[2])]]
        /\ UNCHANGED <<request, available, seen, store, cells, auth>>

\* the caller of request p has the result; the call's locals are gone
PReturn(p) ==
    /\ calls[p].pc = "returned"
    /\ calls' = [calls EXCEPT ![p] = IdleCall]
    /\ cells' = [cells EXCEPT ![Cell(p)] = EmptyCell]
    /\ available' = FlagAfterCall(available)
    /\ UNCHANGED <<request, seen, store, auth>>

\* a re-enrollment replaces, adds or removes a row of the identity store; a
\* call that is iterating its mapping at that moment is marked
ReEnroll ==
    /\ \/ \E i \in 1..Len(store), r \in ServerRecords :
             /\ r # store[i][2]
             /\ store' = [store EXCEPT ![i] = <<store[i][1], r>>]
       \/ \E i \in 1..Len(store) :
             store' = SubSeq(store, 1, i - 1) \o SubSeq(store, i + 1, Len(store))
       \/ \E u \in ServerUsers, r \in ServerRecords :
             /\ \A i \in 1..Len(store) : store[i][1] # u
             /\ store' = Append(store, <<u, r>>)
    /\ calls' = [p \in Procs |->
                    IF calls[p].pc = "rec_loop" /\ calls[p].idx <= Len(calls[p].known)
                    THEN [calls[p] EXCEPT !.overlapped = TRUE]
                    ELSE calls[p]]
    /\ UNCHANGED <<request, available, seen, cells, auth>>

InitConcurrent ==
    /\ InitRequest
    /\ seen = None
    /\ store \in ConcurrentStores
    /\ calls = [p \in Procs |-> IdleCall]
    /\ cells = [p \in Procs |-> EmptyCell]
    /\ InitNoAuth

NextConcurrent ==
    \E p \in Procs :
        \/ PCallGenerate(p)
        \/ PCallRecognize(p)
        \/ PGuards(p)
        \/ PEncode(p)
        \/ PParse(p)
        \/ PCheckTrain(p)
        \/ PTrainPredict(p)
        \/ PReturn(p)

SpecConcurrent == InitConcurrent /\ [][NextConcurrent]_vars

NextReEnroll ==
    \/ ReEnroll
    \/ PCallRecognize(1)
    \/ PGuards(1)
    \/ PEncode(1)
    \/ PParse(1)
    \/ PCheckTrain(1)
    \/ PTrainPredict(1)
    \/ PReturn(1)

SpecReEnroll == Init /\ [][NextReEnroll]_vars

\* C16: concurrent calls do not interfere: under any interleaving of the steps
\* of two requests, a call returns the result it would return when run alone
\* on its own inputs, and a request that is in no call has left nothing behind
\* (its lists and map are empty).
C16_ConcurrentCallsDoNotInterfere ==
    \A p \in Procs :
        /\ calls[p].pc = "returned" =>
              calls[p].result =
                  IF calls[p].fn = "generate"
                  THEN GenerateFaceEncoding(calls[p].photo).res
                  ELSE RecognizeAlone(calls[p].photo, calls[p].known,
                                      calls[p].tolerance, calls[p].fault)
        /\ calls[p].pc = "idle" => cells[p] = EmptyCell

C16_Witness ==
    /\ calls[1].pc = "returned"
    /\ calls[1].fn = "recognize"
    /\ calls[1].result.recognized = TRUE
    /\ calls[2].pc = "rec_train"
    /\ calls[2].photo # calls[1].photo
    /\ cells[2].imgs # <<>>
    /\ calls[1].result = RecognizeAlone(calls[1].photo, calls[1].known,
                                        calls[1].tolerance, calls[1].fault)

-----------------------------------------------------------------------------
(* A caller that repeats a recognize_face_from_database call on the same    *)
(* photograph and mapping with another tolerance                            *)

\* the first call of the caller
CallRecognizeFirst ==
    /\ seen = None
    /\ CallRecognizeEnrolled

\* the same photograph and mapping again, with any tolerance
CallRecognizeAgain ==
    /\ pc = "idle"
    /\ seen # None
    /\ photo' = seen[1].photo
    /\ known' = seen[1].known
    /\ tolerance' \in EnrolledTolerances
    /\ fn' = "recognize"
    /\ pc' = "rec_entry"
    /\ UNCHANGED <<available, ops, unknown_face_img, idx, train_imgs, train_labels,
                   user_id_to_label, result>>
    /\ UNCHANGED aux

\* the call returns; the caller keeps the arguments and the result of its
\* first call
ReturnTolerance ==
    /\ ReturnCall
    /\ seen' = IF seen = None
               THEN Some([photo |-> photo, known |-> known, tolerance |-> tolerance,
                          result |-> result, fault |-> "fault" \in ops])
               ELSE seen
    /\ UNCHANGED <<store, calls, cells, auth>>

NextTolerance ==
    \/ CallRecognizeFirst
    \/ CallRecognizeAgain
    \/ RecGuards
    \/ RecEncode
    \/ RecParse
    \/ RecCheckTrain
    \/ RecTrainPredict
    \/ ReturnTolerance

SpecTolerance == Init /\ [][NextTolerance]_vars

\* two calls on the same photograph and mapping, in neither of which the
\* classifier raised
SameQueryTwice ==
    /\ seen # None
    /\ Returned("recognize")
    /\ photo = seen[1].photo
    /\ known = seen[1].known
    /\ ~seen[1].fault
    /\ "fault" \notin ops

\* C21: matching is monotone in tolerance: for a fixed query photograph and
\* mapping (and a classifier that does not raise), recognized = TRUE at
\* tolerance t implies recognized = TRUE with the same user_id and distance at
\* every t' >= t, and recognized = FALSE at t implies recognized = FALSE at
\* every t' <= t.
C21_MonotoneInTolerance ==
    SameQueryTwice =>
        /\ (seen[1].result.recognized /\ tolerance >= seen[1].tolerance) =>
              /\ result.recognized = TRUE
              /\ result.user_id = seen[1].result.user_id
              /\ result.distance = seen[1].result.distance
        /\ (~seen[1].result.recognized /\ tolerance <= seen[1].tolerance) =>
              result.recognized = FALSE

C21_Witness ==
    /\ SameQueryTwice
    /\ seen[1].tolerance = DefaultToleranceRecognize
    /\ seen[1].result.recognized = TRUE
    /\ seen[1].result.distance = Some(6000)
    /\ tolerance = 100
    /\ result.recognized = TRUE
    /\ result.distance = Some(6000)

-----------------------------------------------------------------------------
(* Callers that omit the tolerance argument                                 *)

\* the value of a parameter with a default: the argument if one is given
ToleranceArg(given, default) == IF given = None THEN default ELSE given[1]

\* compare_faces(known_encoding_json, photo) without a tolerance
CallCompareDefault ==
    /\ pc = "idle"
    /\ seen = None
    /\ \E enc \in Records, ph \in QueryPhotos, fault \in BOOLEAN :
          LET tol == ToleranceArg(None, DefaultToleranceCompare)
          IN  /\ known' = enc
              /\ photo' = ph
              /\ tolerance' = tol
              /\ result' = CompareFaces(enc, ph, tol, fault).res
              /\ ops' = CompareFaces(enc, ph, tol, fault).done
    /\ fn' = "compare"
    /\ pc' = "returned"
    /\ UNCHANGED <<available, unknown_face_img, idx, train_imgs, train_labels,
                   user_id_to_label>>
    /\ UNCHANGED aux

\* recognize_face_from_database(photo, {user_id: known_encoding_json}) without
\* a tolerance, on the photograph and the stored text of the earlier
\* compare_faces call
CallRecognizeDefault ==
    /\ pc = "idle"
    /\ seen # None
    /\ photo' = seen[1].photo
    /\ known' = <<<<UserId(1), seen[1].known>>>>
    /\ tolerance' = ToleranceArg(None, DefaultToleranceRecognize)
    /\ fn' = "recognize"
    /\ pc' = "rec_entry"
    /\ UNCHANGED <<available, ops, unknown_face_img, idx, train_imgs, train_labels,
                   user_id_to_label, result>>
    /\ UNCHANGED aux

\* the call returns; the caller keeps the arguments and the result of its
\* compare_faces call
ReturnDefaults ==
    /\ ReturnCall
    /\ seen' = IF seen = None /\ fn = "compare"
               THEN Some([photo |-> photo, known |-> known, result |-> result])
               ELSE seen
    /\ UNCHANGED <<store, calls, cells, auth>>

NextDefaults ==
    \/ CallCompareDefault
    \/ CallRecognizeDefault
    \/ RecGuards
    \/ RecEncode
    \/ RecParse
    \/ RecCheckTrain
    \/ RecTrainPredict
    \/ ReturnDefaults

SpecDefaults == Init /\ [][NextDefaults]_vars

C23_CompareFacesContract ==
    Returned("compare") =>
        /\ result.success = ("predict" \in ops)
        /\ result.success =
              /\ available
              /\ JsonLoads(known) # None
              /\ NpArray(JsonLoads(known)[1]).ok
              /\ QueryEncodes(photo)
              /\ "fault" \notin ops
        /\ result.success = TRUE =>
              /\ {"parse", "encode", "train"} \subseteq ops
              /\ result.distance # None
              /\ result.match = (result.distance[1] < tolerance * 100)
              /\ result.distance[1] =
                    Predict(<<NpArray(JsonLoads(known)[1])>>, <<0>>,
                            NpArray(Sample(Base64ToImage(photo)[1].pat)))[2]
        /\ result.success = FALSE =>
              /\ result.match = FALSE
              /\ result.distance = None
        /\ ("encode" \in ops /\ ~QueryEncodes(photo)) =>
              result.message = EncoderFailureMessage(photo)

C23_Witness ==
    /\ Returned("compare")
    /\ "encode" \in ops
    /\ ~QueryEncodes(photo)
    /\ photo # <<>>
    /\ FacesIn(photo) = 2
    /\ result.success = FALSE
    /\ result.match = FALSE
    /\ result.distance = None
    /\ result.message = "Multiple faces detected"

\* C24: every result of recognize_face_from_database is coherent: success =
\* FALSE implies recognized = FALSE, no user_id and no distance; recognized =
\* FALSE implies no user_id; recognized = TRUE implies success = TRUE, a
\* user_id, and a distance below tolerance * 100, hence (the tolerance being at
\* most 1) below 100, so that the percentage 100 - distance is positive.
C24_RecognizeResultCoherent ==
    Returned("recognize") =>
        /\ result.success = FALSE =>
              /\ result.recognized = FALSE
              /\ result.user_id = None
              /\ result.distance = None
        /\ result.recognized = FALSE => result.user_id = None
        /\ result.recognized = TRUE =>
              /\ result.success = TRUE
              /\ result.user_id # None
              /\ result.user_id[1] \in {known[i][1] : i \in 1..Len(known)}
              /\ result.distance # None
              /\ result.distance[1] < tolerance * 100
              /\ tolerance \in 0..100 =>
                    /\ result.distance[1] < 10000
                    /\ 10000 - result.distance[1] > 0

C24_Witness ==
    /\ Returned("recognize")
    /\ tolerance = 70
    /\ result.success = TRUE
    /\ result.recognized = TRUE
    /\ result.user_id = Some(102)
    /\ result.distance = Some(6000)

\* C25: every result of generate_face_encoding is coherent: success = TRUE iff
\* there is an encoding iff face_count = 1; a failure has face_count 0, except
\* the multiple-faces failure, whose face_count is at least 2; and (the feature
\* being available) an empty or missing photograph gives the "No photo
\* provided" failure with no decode attempt.
C25_EncoderResultCoherent ==
    Returned("generate") =>
        /\ result.success = (result.encoding # None)
        /\ result.success = (result.face_count = 1)
        /\ result.success = FALSE =>
              IF result.message = "Multiple faces detected"
              THEN result.face_count >= 2
              ELSE result.face_count = 0
        /\ (available /\ photo = <<>>) =>
              /\ result.success = FALSE
              /\ result.message = "No photo provided"
              /\ ops = {}

C25_Witness ==
    /\ Returned("generate")
    /\ available
    /\ photo = <<>>
    /\ result.success = FALSE
    /\ result.encoding = None
    /\ result.face_count = 0
    /\ result.message = "No photo provided"
    /\ "decode" \notin ops

-----------------------------------------------------------------------------
(* routes/auth.py: registration, login and the administrator's requests     *)

Emails == {"ann@erp", "bob@erp"}
Usernames == {"ann", "bob"}
Passwords == {"pw1", "pw2"}
Departments == {"sales", "admin"}

\* required_fields, line 24
RequiredFields == <<"full_name", "email", "username", "password", "department">>

\* generate_password_hash / check_password_hash of werkzeug
PasswordHash(password) == <<"hash", password>>
CheckPassword(password_hash, password) == password_hash = PasswordHash(password)

\* the user created at start-up (User.create_admin_user)
AdminUser ==
    [full_name |-> "Administrator", email |-> "admin@erp", username |-> "admin",
     password_hash |-> PasswordHash("pw2"), department |-> "admin",
     status |-> "approved"]

\* the ids of the rows of the table
RowIds(table) == {i \in 1..Len(table) : table[i] # None}

\* User.query.get(user_id)
QueryGet(table, user_id) == IF user_id \in RowIds(table) THEN table[user_id] ELSE None

\* User.query.filter_by(field=value).first(): the id of the row, 0 for None
FilterByFirst(table, field, value) ==
    LET ids == {i \in RowIds(table) : table[i][1][field] = value}
    IN  IF ids = {} THEN 0 ELSE CHOOSE i \in ids : \A j \in ids : i <= j

\* a JSON object without one of its fields
Without(data, field) == [f \in (DOMAIN data) \ {field} |-> data[f]]

\* a variant that finds no field missing
NoFieldMissing(data) == FALSE

\* lines 25-27: the loop over required_fields
MissingField(data) == \E i \in 1..Len(RequiredFields) : RequiredFields[i] \notin DOMAIN data

\* a variant without the username check
UsernameNeverTaken(table, username) == FALSE

\* lines 29-35: the email and the username checks
EmailTaken(table, email) == FilterByFirst(table, "email", email) # 0
UsernameTaken(table, username) == FilterByFirst(table, "username", username) # 0

\* lines 38-45: the new user
NewUser(data) ==
    [full_name |-> data.full_name, email |-> data.email, username |-> data.username,
     password_hash |-> PasswordHash(data.password), department |-> data.department,
     status |-> "pending"]

\* register, lines 17-57: the response code, the table after it and the id of
\* the new user
RegisterUser(table, data) ==
    IF MissingField(data)
    THEN [code |-> 400, users |-> table, user_id |-> 0]
    ELSE IF EmailTaken(table, data.email)
    THEN [code |-> 409, users |-> table, user_id |-> 0]
    ELSE IF UsernameTaken(table, data.username)
    THEN [code |-> 409, users |-> table, user_id |-> 0]
    ELSE [code |-> 201, users |-> Append(table, Some(NewUser(data))),
          user_id |-> Len(table) + 1]

\* a variant that lets in every user who was not rejected
NotRejected(status) == status # "rejected"

\* line 80: user.status != UserStatus.APPROVED is false
IsApproved(status) == status = "approved"

\* login, lines 59-90: the response code and the id of the user found
LoginUser(table, data) ==
    IF ("username" \notin DOMAIN data /\ "email" \notin DOMAIN data)
       \/ "password" \notin DOMAIN data
    THEN [code |-> 400, user_id |-> 0]
    ELSE LET user_id == IF "username" \in DOMAIN data
                        THEN FilterByFirst(table, "username", data.username)
                        ELSE FilterByFirst(table, "email", data.email)
         IN  IF user_id = 0
             THEN [code |-> 401, user_id |-> 0]
             ELSE IF ~CheckPassword(table[user_id][1].password_hash, data.password)
             THEN [code |-> 401, user_id |-> user_id]
             ELSE IF ~IsApproved(table[user_id][1].status)
             THEN [code |-> 403, user_id |-> user_id]
             ELSE [code |-> 200, user_id |-> user_id]

\* a variant without the status check
AnyStatus(status) == TRUE

\* lines 114 and 139: user.status != UserStatus.PENDING is false
IsPending(status) == status = "pending"

\* lines 117 and 142: the status a request writes
NewStatus(op) == IF op = "approve" THEN "approved" ELSE "rejected"

\* a variant without the admin check
NeverAdmin(department) == FALSE

\* line 204: user.department == 'admin'
IsAdmin(department) == department = "admin"

\* the bodies of the requests
CompleteBodies ==
    {[full_name |-> "New User", email |-> e, username |-> u, password |-> "pw1",
      department |-> d] : e \in Emails, u \in Usernames, d \in Departments}

RegisterBodies ==
    CompleteBodies
    \cup {Without(c, RequiredFields[i]) :
             c \in {b \in CompleteBodies : /\ b.email = "ann@erp"
                                             /\ b.username = "ann"
                                             /\ b.department = "sales"},
             i \in 1..Len(RequiredFields)}

LoginBodies ==
    {[username |-> u, password |-> p] : u \in {"bob", "admin"}, p \in Passwords}
    \cup {[username |-> "ann", password |-> "pw1"],
          [email |-> "ann@erp", password |-> "pw1"],
          [username |-> "bob", email |-> "ann@erp", password |-> "pw1"],
          [username |-> "ann"], [password |-> "pw1"]}

\* the ids a request may name: every row ever created and one that never was
UserIds == 1..(MaxRows + 1)

\* no approve or reject request is between its read and its commit
NoneInFlight == \A p \in Procs : inflight[p].pc = "idle"

face == <<available, request, seen, store, calls, cells>>

\* POST /auth/register
Register ==
    /\ NoneInFlight
    /\ \E data \in RegisterBodies :
          LET r == RegisterUser(users, data)
          IN  /\ r.code = 201 => Len(users) < MaxRows
              /\ users' = r.users
              /\ response' = [op |-> "register", user_id |-> r.user_id, code |-> r.code,
                               data |-> data]
    /\ UNCHANGED <<face, inflight, history>>

\* POST /auth/login
Login ==
    /\ NoneInFlight
    /\ \E data \in LoginBodies :
          LET r == LoginUser(users, data)
          IN  /\ response' = [op |-> "login", user_id |-> r.user_id, code |-> r.code,
                               data |-> data]
              /\ history' = IF r.code = 200
                            THEN [history EXCEPT !.logins = @ \cup {r.user_id}]
                            ELSE history
    /\ UNCHANGED <<face, users, inflight>>

\* PUT /auth/approve-user/<id> and PUT /auth/reject-user/<id>, lines 110-115 and
\* 135-140: request p reads the user and checks the status
StatusRead(p) ==
    /\ inflight[p].pc = "idle"
    /\ \E op \in {"approve", "reject"}, user_id \in UserIds :
          LET user == QueryGet(users, user_id)
          IN  IF user = None
              THEN /\ response' = [op |-> op, user_id |-> user_id, code |-> 404, data |-> <<>>]
                   /\ UNCHANGED inflight
              ELSE IF ~IsPending(user[1].status)
              THEN /\ response' = [op |-> op, user_id |-> user_id, code |-> 400, data |-> <<>>]
                   /\ UNCHANGED inflight
              ELSE /\ inflight' = [inflight EXCEPT ![p] =
                                      [pc |-> "write", op |-> op, user_id |-> user_id]]
                   /\ UNCHANGED response
    /\ UNCHANGED <<face, users, history>>

\* lines 117-123 and 142-148: request p writes the status, commits and answers;
\* the UPDATE of a row that is gone raises and the request answers 500
StatusWrite(p) ==
    LET op == inflight[p].op
        user_id == inflight[p].user_id
    IN  /\ inflight[p].pc = "write"
        /\ inflight' = [inflight EXCEPT ![p] = IdleRequest]
        /\ IF users[user_id] = None
           THEN /\ response' = [op |-> op, user_id |-> user_id, code |-> 500, data |-> <<>>]
                /\ UNCHANGED <<users, history>>
           ELSE /\ users' = [users EXCEPT ![user_id] =
                                Some([@[1] EXCEPT !.status = NewStatus(op)])]
                /\ response' = [op |-> op, user_id |-> user_id, code |-> 200, data |-> <<>>]
                /\ history' = [history EXCEPT
                                  !.successes = @ \cup {<<op, user_id, p>>},
                                  !.writes = @ \cup {<<user_id, users[user_id][1].status,
                                                       NewStatus(op)>>},
                                  !.approved = IF op = "approve" THEN @ \cup {user_id}
                                               ELSE @]
        /\ UNCHANGED face

\* a request served with no other request in flight
StatusReadAlone ==
    /\ NoneInFlight
    /\ StatusRead(1)

\* PUT /auth/users/<id>/department
UpdateUserDepartment ==
    /\ NoneInFlight
    /\ \E user_id \in UserIds, data \in {<<>>} \cup {[department |-> d] : d \in Departments} :
          IF "department" \notin DOMAIN data
          THEN /\ response' = [op |-> "department", user_id |-> user_id, code |-> 400, data |-> <<>>]
               /\ UNCHANGED users
          ELSE IF QueryGet(users, user_id) = None
          THEN /\ response' = [op |-> "department", user_id |-> user_id, code |-> 404, data |-> <<>>]
               /\ UNCHANGED users
          ELSE /\ users' = [users EXCEPT ![user_id] =
                               Some([@[1] EXCEPT !.department = data.department])]
               /\ response' = [op |-> "department", user_id |-> user_id, code |-> 200, data |-> <<>>]
    /\ UNCHANGED <<face, inflight, history>>

\* DELETE /auth/users/<id>
DeleteUser ==
    /\ NoneInFlight
    /\ \E user_id \in UserIds :
          LET user == QueryGet(users, user_id)
          IN  IF user = None
              THEN /\ response' = [op |-> "delete", user_id |-> user_id, code |-> 404, data |-> <<>>]
                   /\ UNCHANGED users
              ELSE IF IsAdmin(user[1].department)
              THEN /\ response' = [op |-> "delete", user_id |-> user_id, code |-> 400, data |-> <<>>]
                   /\ UNCHANGED users
              ELSE /\ users' = [users EXCEPT ![user_id] = None]
                   /\ response' = [op |-> "delete", user_id |-> user_id, code |-> 200, data |-> <<>>]
    /\ UNCHANGED <<face, inflight, history>>

\* the table at start-up: empty, or holding the administrator
InitAuth ==
    /\ InitRequest
    /\ available
    /\ seen = None
    /\ store = <<>>
    /\ calls = [p \in Procs |-> IdleCall]
    /\ cells = [p \in Procs |-> EmptyCell]
    /\ users \in {<<>>, <<Some(AdminUser)>>}
    /\ inflight = [p \in Procs |-> IdleRequest]
    /\ response = NoResponse
    /\ history = [NoHistory EXCEPT !.approved =
                     {i \in RowIds(users) : users[i][1].status = "approved"}]

\* registration, login and the status requests, served one after the other
NextAuth ==
    \/ Register
    \/ Login
    \/ StatusReadAlone
    \/ StatusWrite(1)
    \/ DeleteUser

SpecAuth == InitAuth /\ [][NextAuth]_vars

\* registration and the administration of the accounts, served one after the
\* other
NextAccounts ==
    \/ Register
    \/ UpdateUserDepartment
    \/ DeleteUser

SpecAccounts == InitAuth /\ [][NextAccounts]_vars

\* two administrators' requests served at the same time on a table that
\* registration has filled
InitRace ==
    /\ InitRequest
    /\ available
    /\ seen = None
    /\ store = <<>>
    /\ calls = [p \in Procs |-> IdleCall]
    /\ cells = [p \in Procs |-> EmptyCell]
    /\ \E b1 \in CompleteBodies, b2 \in CompleteBodies :
          /\ RegisterUser(<<>>, b1).code = 201
          /\ users \in {RegisterUser(<<>>, b1).users,
                        RegisterUser(RegisterUser(<<>>, b1).users, b2).users}
    /\ inflight = [p \in Procs |-> IdleRequest]
    /\ response = NoResponse
    /\ history = NoHistory

NextRace ==
    \E p \in Procs :
        \/ StatusRead(p)
        \/ StatusWrite(p)

SpecRace == InitRace /\ [][NextRace]_vars

\* the status writes on user i
WritesOn(i) == {w \in history.writes : w[1] = i}

\* C26: a status changes only from PENDING: approve_user writes APPROVED and
\* reject_user REJECTED on a PENDING user and answer 200, on a user that is not
\* PENDING they answer 400 and on an unknown id 404, writing nothing; so, the
\* register, login, approve, reject (and delete) requests being served one
\* after the other, every status write started from PENDING, no user has more
\* than one, and a user keeps the status that was written.
C26_StatusChangesOnlyFromPending ==
    /\ \A w \in history.writes :
          /\ w[2] = "pending"
          /\ w[3] \in {"approved", "rejected"}
          /\ Cardinality(WritesOn(w[1])) = 1
          /\ w[1] \in RowIds(users) => users[w[1]][1].status = w[3]
    /\ \A i \in RowIds(users) :
          users[i][1].status # "pending" =>
              \/ WritesOn(i) = {<<i, "pending", users[i][1].status>>}
              \/ WritesOn(i) = {} /\ users[i][1] = AdminUser
    /\ response.op \in {"approve", "reject"} =>
          /\ response.code \in {200, 400, 404}
          /\ response.code = 200 =>
                /\ response.user_id \in RowIds(users)
                /\ users[response.user_id][1].status =
                      (IF response.op = "approve" THEN "approved" ELSE "rejected")
                /\ <<response.user_id, "pending", users[response.user_id][1].status>>
                      \in history.writes
          /\ response.code = 400 =>
                /\ response.user_id \in RowIds(users)
                /\ users[response.user_id][1].status \in {"approved", "rejected"}
          /\ response.code = 404 => response.user_id \notin RowIds(users)

C26_Witness ==
    /\ response = [op |-> "reject", user_id |-> 2, code |-> 400, data |-> <<>>]
    /\ 2 \in RowIds(users)
    /\ users[2][1].status = "approved"
    /\ history.writes = {<<2, "pending", "approved">>}
    /\ 2 \in history.logins

\* C27: for a given user at most one approve_user or reject_user request ever
\* returns success, also when an approve and a reject request for the same
\* pending user are served at the same time; no user is reported as both
\* approved and rejected.
C27_AtMostOneStatusSuccess ==
    \A i \in UserIds : Cardinality({r \in history.successes : r[2] = i}) <= 1

\* the rows a login body names (by username when it has one, by email
\* otherwise) with the password it gives
CredentialsOf(data) ==
    {i \in RowIds(users) :
        /\ IF "username" \in DOMAIN data
           THEN users[i][1].username = data.username
           ELSE users[i][1].email = data.email
        /\ users[i][1].password_hash = PasswordHash(data.password)}

HasCredentials(data) ==
    /\ "username" \in DOMAIN data \/ "email" \in DOMAIN data
    /\ "password" \in DOMAIN data

\* C28: login answers 200 only to correct credentials of a user whose status
\* is APPROVED at that moment; correct credentials of a PENDING or REJECTED
\* user get 403; the credentials are checked before the status, so a wrong
\* password or an unknown user gets 401 whatever the status; and no user that
\* never was APPROVED has logged in.
C28_LoginOnlyWhenApproved ==
    /\ history.logins \subseteq history.approved
    /\ response.op = "login" =>
          LET data == response.data
          IN  IF ~HasCredentials(data)
              THEN response.code = 400
              ELSE IF CredentialsOf(data) = {}
              THEN response.code = 401
              ELSE /\ CredentialsOf(data) = {response.user_id}
                   /\ response.code =
                         (IF users[response.user_id][1].status = "approved"
                          THEN 200 ELSE 403)
                   /\ response.code = 200 => response.user_id \in history.logins

C28_Witness ==
    /\ response.op = "login"
    /\ response.code = 403
    /\ response.user_id = 1
    /\ response.data = [username |-> "bob", password |-> "pw1"]
    /\ users[1][1].status = "rejected"
    /\ history.logins = {}

\* the rows of the table that hold a given value in a given column
RowsWith(table, column, value) ==
    {i \in RowIds(table) : table[i][1][column] = value}

\* C29: register creates a user, in PENDING status and with the fields of the
\* request, only when the five required fields are present and no user has the
\* email or the username; otherwise it answers 400 or 409 and the table is as
\* before; and with the requests served one after the other no two users
\* share an email or a username.
C29_RegisterStep ==
    response'.op = "register" =>
        LET data == response'.data
        IN  IF \E k \in 1..Len(RequiredFields) : RequiredFields[k] \notin DOMAIN data
            THEN response'.code = 400 /\ users' = users
            ELSE IF RowsWith(users, "email", data.email) # {}
                    \/ RowsWith(users, "username", data.username) # {}
            THEN response'.code = 409 /\ users' = users
            ELSE /\ response'.code = 201
                 /\ response'.user_id = Len(users) + 1
                 /\ users' = Append(users,
                        Some([full_name |-> data.full_name,
                              email |-> data.email,
                              username |-> data.username,
                              password_hash |-> PasswordHash(data.password),
                              department |-> data.department,
                              status |-> "pending"]))

C29_UniqueUsers ==
    \A i, j \in RowIds(users) :
        i # j => /\ users[i][1].email # users[j][1].email
                 /\ users[i][1].username # users[j][1].username

C29_RegisterCreatesPendingUnique ==
    [](C29_UniqueUsers) /\ [][C29_RegisterStep]_vars

C29_Witness ==
    /\ response.op = "register"
    /\ response.code = 409
    /\ "email" \in DOMAIN response.data
    /\ RowsWith(users, "email", response.data.email) = {}
    /\ \E i \in RowIds(users) :
          /\ users[i][1].username = response.data.username
          /\ users[i][1].status = "pending"

\* C30: delete_user answers 400 for a user whose department is 'admin' at the
\* time of the call and the user remains; for another existing user it removes
\* that user and no other, and every other user is as before; for an unknown id
\* it answers 404 and removes nothing.
C30_DeleteStep ==
    response'.op = "delete" =>
        LET user_id == response'.user_id
        IN  IF user_id \notin RowIds(users)
            THEN response'.code = 404 /\ users' = users
            ELSE IF users[user_id][1].department = "admin"
            THEN response'.code = 400 /\ users' = users
            ELSE /\ response'.code = 200
                 /\ RowIds(users') = RowIds(users) \ {user_id}
                 /\ \A j \in RowIds(users') : users'[j] = users[j]

C30_DeleteSparesAdmin ==
    [][C30_DeleteStep]_vars

C30_Witness ==
    /\ response.op = "delete"
    /\ response.code = 400
    /\ response.user_id \in RowIds(users)
    /\ users[response.user_id][1].username = "bob"
    /\ users[response.user_id][1].department = "admin"
    /\ \E j \in 1..Len(users) : users[j] = None

====
